---- MODULE Spec2Model ----
(***************************************************************************)
(* Model of touka's routing tree (tree.go) and of the engine entry points  *)
(* that use it (engine.go): registration (Engine.addRoute -> node.addRoute *)
(* -> node.insertChild), exact lookup (node.getValue) and the dispatcher   *)
(* (Engine.handleRequest).                                                 *)
(*                                                                         *)
(* Strings are sequences of one-character strings; Go's s[i:j] is          *)
(* Slice(s, i, j) and s[i] is At(s, i), both 0-based as in the source.     *)
(* The nodes of all method trees live in one heap (a sequence of node      *)
(* records); a *node is an index into the heap.  A handler chain is a      *)
(* sequence of handler ids; the nil chain is the empty sequence            *)
(* (Engine.addRoute rejects empty chains, so the two never mix).           *)
(* A Go panic inside an operation is reported in the operation's result;   *)
(* the mutations made before the panic stay in the heap, as in Go.         *)
(***************************************************************************)
EXTENDS Integers, Sequences, FiniteSets, TLC

VARIABLES heap, methodTrees, maxParams, routesInfo, attempts, result, goroutines

vars == <<heap, methodTrees, maxParams, routesInfo, attempts, result, goroutines>>

----------------------------------------------------------------------------
(* Strings *)

Slice(s, i, j) == SubSeq(s, i + 1, j)

At(s, i) == s[i + 1]

From(s, i) == SubSeq(s, i + 1, Len(s))

Min(a, b) == IF a < b THEN a ELSE b

\* strings.HasSuffix
HasSuffix(s, suffix) ==
    /\ Len(s) >= Len(suffix)
    /\ From(s, Len(s) - Len(suffix)) = suffix

\* bytes.IndexByte: the 0-based position of the first c in s, or -1
IndexByte(s, c) ==
    IF \E k \in 1..Len(s) : s[k] = c
    THEN (CHOOSE k \in 1..Len(s) : s[k] = c /\ \A j \in 1..(k - 1) : s[j] # c) - 1
    ELSE -1

\* bytes.Count of a one-byte separator
Count(s, c) == Cardinality({k \in 1..Len(s) : s[k] = c})

longestCommonPrefix(a, b) ==
    LET max_ == Min(Len(a), Len(b))
        differ == {k \in 1..max_ : a[k] # b[k]}
    IN  IF differ = {} THEN max_
        ELSE (CHOOSE k \in differ : \A j \in differ : k <= j) - 1

countParams(path) == Count(path, ":") + Count(path, "*")

----------------------------------------------------------------------------
(* Nodes *)

NilHandlers == <<>>

\* the zero value of struct node
ZeroNode ==
    [path |-> <<>>, indices |-> <<>>, wildChild |-> FALSE, nType |-> "static",
     priority |-> 0, children |-> <<>>, handlers |-> NilHandlers, fullPath |-> <<>>]

Ok(h) == [heap |-> h, err |-> ""]

Fail(h, msg) == [heap |-> h, err |-> msg]

\* an addChild that appends, whether or not the node has a wildcard child
addChildLast(h, n, child) == [h EXCEPT ![n].children = Append(@, child)]

\* node.addChild: h[child] becomes a child of h[n], the wildcard child stays last
addChild(h, n, child) ==
    LET cs == h[n].children IN
    IF h[n].wildChild /\ Len(cs) > 0
    THEN [h EXCEPT ![n].children = Append(Append(SubSeq(cs, 1, Len(cs) - 1), child), cs[Len(cs)])]
    ELSE [h EXCEPT ![n].children = Append(cs, child)]

\* the loop of incrementChildPrio: how far the child at pos moves to the front
RECURSIVE newPosOf(_, _, _, _)
newPosOf(h, cs, newPos, prio) ==
    IF newPos > 0 /\ h[cs[newPos]].priority < prio
    THEN newPosOf(h, cs, newPos - 1, prio)
    ELSE newPos

\* node.incrementChildPrio(pos), pos 0-based; [heap, pos, err]
incrementChildPrio(h, n, pos) ==
    LET cs == h[n].children IN
    IF pos < 0 \/ pos >= Len(cs)
    THEN [heap |-> h, pos |-> pos, err |-> "index out of range"]
    ELSE
    LET c      == cs[pos + 1]
        h1     == [h EXCEPT ![c].priority = @ + 1]
        prio   == h1[c].priority
        newPos == newPosOf(h1, cs, pos, prio)
        cs1    == SubSeq(cs, 1, newPos) \o <<c>> \o SubSeq(cs, newPos + 1, pos)
                    \o SubSeq(cs, pos + 2, Len(cs))
        ix     == h[n].indices
    IN  IF newPos = pos
        THEN [heap |-> h1, pos |-> pos, err |-> ""]
        ELSE IF pos + 1 > Len(ix)
        THEN [heap |-> [h1 EXCEPT ![n].children = cs1], pos |-> newPos,
              err |-> "slice bounds out of range"]
        ELSE [heap |-> [h1 EXCEPT ![n].children = cs1,
                                  ![n].indices = Slice(ix, 0, newPos) \o Slice(ix, pos, pos + 1)
                                                   \o Slice(ix, newPos, pos) \o From(ix, pos + 1)],
              pos |-> newPos, err |-> ""]

----------------------------------------------------------------------------
(* findWildcard *)

NoWildcard == [wildcard |-> <<>>, i |-> -1, valid |-> FALSE, panic |-> FALSE]

RECURSIVE findWildcardFrom(_, _, _)
findWildcardFrom(path, start, escapeColon) ==
    IF start >= Len(path) THEN NoWildcard
    ELSE
    LET c == At(path, start) IN
    IF escapeColon
    THEN IF c = ":" THEN findWildcardFrom(path, start + 1, FALSE)
         ELSE [NoWildcard EXCEPT !.panic = TRUE]
    ELSE IF c = "\\" THEN findWildcardFrom(path, start + 1, TRUE)
    ELSE IF c # ":" /\ c # "*" THEN findWildcardFrom(path, start + 1, FALSE)
    ELSE
    LET rest  == From(path, start + 1)
        slash == IndexByte(rest, "/")
        end   == IF slash < 0 THEN Len(rest) ELSE slash
        name  == Slice(rest, 0, end)
    IN  [wildcard |-> Slice(path, start, start + 1 + end), i |-> start,
         valid |-> \A k \in 1..Len(name) : name[k] # ":" /\ name[k] # "*",
         panic |-> FALSE]

\* a search that takes the wildcard to end at the next marker or '/'
findWildcardFirstMarker(path) ==
    LET w == findWildcardFrom(path, 0, FALSE) IN
    IF w.i < 0 \/ w.valid THEN w
    ELSE LET name == From(w.wildcard, 1)
             stop == CHOOSE k \in 1..Len(name) :
                        /\ name[k] \in {":", "*"}
                        /\ \A j \in 1..(k - 1) : name[j] \notin {":", "*"}
         IN  [w EXCEPT !.wildcard = Slice(w.wildcard, 0, stop), !.valid = TRUE]

\* findWildcard(path): [wildcard, i, valid], panic set for an invalid escape
findWildcard(path) == findWildcardFrom(path, 0, FALSE)

----------------------------------------------------------------------------
(* insertChild *)

\* a check that lets a catch-all through wherever it fits in the path
catchAllFits(i, wildcard, path) == i + Len(wildcard) <= Len(path)

\* "if i+len(wildcard) != len(path)" of the catch-all case
catchAllAtEnd(i, wildcard, path) == i + Len(wildcard) = Len(path)

RECURSIVE insertChild(_, _, _, _, _)
insertChild(h, n, path, fullPath, handlers) ==
    LET w == findWildcard(path)
        wildcard == w.wildcard
        i == w.i
    IN
    IF w.panic THEN Fail(h, "invalid escape string in path")
    ELSE IF i < 0
    THEN Ok([h EXCEPT ![n].path = path, ![n].handlers = handlers, ![n].fullPath = fullPath])
    ELSE IF ~w.valid THEN Fail(h, "only one wildcard per path segment is allowed")
    ELSE IF Len(wildcard) < 2 THEN Fail(h, "wildcards must be named with a non-empty name")
    ELSE IF At(wildcard, 0) = ":"
    THEN
        LET h1    == IF i > 0 THEN [h EXCEPT ![n].path = Slice(path, 0, i)] ELSE h
            path1 == IF i > 0 THEN From(path, i) ELSE path
            child == Len(h1) + 1
            h2    == addChild(Append(h1, [ZeroNode EXCEPT !.nType = "param", !.path = wildcard,
                                                          !.fullPath = fullPath]), n, child)
            h3    == [h2 EXCEPT ![n].wildChild = TRUE, ![child].priority = @ + 1]
        IN  IF Len(wildcard) < Len(path1)
            THEN LET child2 == Len(h3) + 1
                     h4 == addChild(Append(h3, [ZeroNode EXCEPT !.priority = 1,
                                                                !.fullPath = fullPath]),
                                    child, child2)
                 IN  insertChild(h4, child2, From(path1, Len(wildcard)), fullPath, handlers)
            ELSE Ok([h3 EXCEPT ![child].handlers = handlers])
    ELSE IF ~catchAllAtEnd(i, wildcard, path)
    THEN Fail(h, "catch-all routes are only allowed at the end of the path")
    ELSE IF Len(h[n].path) > 0 /\ At(h[n].path, Len(h[n].path) - 1) = "/"
    THEN Fail(h, "catch-all wildcard conflicts with existing path segment")
    ELSE IF i - 1 < 0 \/ At(path, i - 1) # "/"
    THEN Fail(h, "no / before catch-all")
    ELSE
        LET j      == i - 1
            holder == Len(h) + 1
            leaf   == Len(h) + 2
            h1 == [h EXCEPT ![n].path = Slice(path, 0, j)]
            h2 == addChild(Append(h1, [ZeroNode EXCEPT !.wildChild = TRUE, !.nType = "catchAll",
                                                       !.fullPath = fullPath]), n, holder)
            h3 == [h2 EXCEPT ![n].indices = <<"/">>, ![holder].priority = @ + 1]
            h4 == Append(h3, [ZeroNode EXCEPT !.path = From(path, j), !.nType = "catchAll",
                                              !.handlers = handlers, !.priority = 1,
                                              !.fullPath = fullPath])
        IN  Ok([h4 EXCEPT ![holder].children = <<leaf>>])

----------------------------------------------------------------------------
(* addRoute *)

\* a split that leaves the handlers on the upper node as well as on the new child
splitEdgeKeepingHandlers(h, n, path, fullPath, parentFullPathIndex, i) ==
    LET old   == h[n]
        child == Len(h) + 1
        h1 == Append(h, [path |-> From(old.path, i), wildChild |-> old.wildChild,
                         nType |-> "static", indices |-> old.indices,
                         children |-> old.children, handlers |-> old.handlers,
                         priority |-> old.priority - 1, fullPath |-> old.fullPath])
    IN  [h1 EXCEPT ![n].children = <<child>>,
                   ![n].indices = <<At(old.path, i)>>,
                   ![n].path = Slice(path, 0, i),
                   ![n].wildChild = FALSE,
                   ![n].fullPath = Slice(fullPath, 0, parentFullPathIndex + i)]

\* the "Split edge" block of addRoute: h[n] keeps path[:i], a new static child
\* takes over the rest of the fragment with the children and the handlers
splitEdge(h, n, path, fullPath, parentFullPathIndex, i) ==
    LET old   == h[n]
        child == Len(h) + 1
        h1 == Append(h, [path |-> From(old.path, i), wildChild |-> old.wildChild,
                         nType |-> "static", indices |-> old.indices,
                         children |-> old.children, handlers |-> old.handlers,
                         priority |-> old.priority - 1, fullPath |-> old.fullPath])
    IN  [h1 EXCEPT ![n].children = <<child>>,
                   ![n].indices = <<At(old.path, i)>>,
                   ![n].path = Slice(path, 0, i),
                   ![n].handlers = NilHandlers,
                   ![n].wildChild = FALSE,
                   ![n].fullPath = Slice(fullPath, 0, parentFullPathIndex + i)]

\* a check that compares the existing wildcard with the head of the path only
wildcardMatchesHead(wild, path) ==
    /\ Len(path) >= Len(wild.path)
    /\ wild.path = Slice(path, 0, Len(wild.path))
    /\ wild.nType # "catchAll"

\* the condition under which addRoute walks into the existing wildcard child
wildcardMatches(wild, path) ==
    /\ Len(path) >= Len(wild.path)
    /\ wild.path = Slice(path, 0, Len(wild.path))
    /\ wild.nType # "catchAll"
    /\ (Len(wild.path) >= Len(path) \/ At(path, Len(wild.path)) = "/")

\* a registration that overwrites the handlers of a node that has some
setHandlersOverwrite(h, n, fullPath, handlers) ==
    Ok([h EXCEPT ![n].handlers = handlers, ![n].fullPath = fullPath])

\* "Otherwise add handle to current node": the walk ended on h[n]
setHandlers(h, n, fullPath, handlers) ==
    IF h[n].handlers # NilHandlers
    THEN Fail(h, "handlers are already registered for path")
    ELSE Ok([h EXCEPT ![n].handlers = handlers, ![n].fullPath = fullPath])

RECURSIVE addRouteWalk(_, _, _, _, _, _)

\* one iteration of the walk loop of addRoute after the split, h[n].path being a
\* prefix of what was left of the path and path the rest of it (not empty)
addRouteDescend(h, n, path, fullPath, parentFullPathIndex, handlers) ==
    LET c == At(path, 0)
        k == IndexByte(h[n].indices, c)
    IN
    IF h[n].nType = "param" /\ c = "/" /\ Len(h[n].children) = 1
    THEN LET next == h[n].children[1] IN
         addRouteWalk([h EXCEPT ![next].priority = @ + 1], next, path, fullPath,
                      parentFullPathIndex + Len(h[n].path), handlers)
    ELSE IF k >= 0
    THEN LET r == incrementChildPrio(h, n, k) IN
         IF r.err # "" THEN Fail(r.heap, r.err)
         ELSE addRouteWalk(r.heap, r.heap[n].children[r.pos + 1], path, fullPath,
                           parentFullPathIndex + Len(h[n].path), handlers)
    ELSE IF c # ":" /\ c # "*" /\ h[n].nType # "catchAll"
    THEN LET child == Len(h) + 1
             h1 == [h EXCEPT ![n].indices = Append(@, c)]
             h2 == addChild(Append(h1, [ZeroNode EXCEPT !.fullPath = fullPath]), n, child)
             r  == incrementChildPrio(h2, n, Len(h1[n].indices) - 1)
         IN  IF r.err # "" THEN Fail(r.heap, r.err)
             ELSE insertChild(r.heap, child, path, fullPath, handlers)
    ELSE IF h[n].wildChild
    THEN IF Len(h[n].children) = 0 THEN Fail(h, "index out of range")
         ELSE
         LET wild == h[n].children[Len(h[n].children)]
             h1 == [h EXCEPT ![wild].priority = @ + 1]
         IN  IF wildcardMatches(h1[wild], path)
             THEN addRouteWalk(h1, wild, path, fullPath, parentFullPathIndex, handlers)
             ELSE Fail(h1, "conflicts with existing wildcard")
    ELSE insertChild(h, n, path, fullPath, handlers)

\* the heap after the "Split edge" block of an iteration that found the common
\* prefix i
afterSplit(h0, n, path0, fullPath, parentFullPathIndex, i) ==
    IF i < Len(h0[n].path)
    THEN splitEdge(h0, n, path0, fullPath, parentFullPathIndex, i)
    ELSE h0

\* the walk loop of addRoute, one iteration per call
addRouteWalk(h0, n, path0, fullPath, parentFullPathIndex, handlers) ==
    LET i == longestCommonPrefix(path0, h0[n].path) IN
    IF i < Len(path0)
    THEN addRouteDescend(afterSplit(h0, n, path0, fullPath, parentFullPathIndex, i), n,
                         From(path0, i), fullPath, parentFullPathIndex, handlers)
    ELSE setHandlers(afterSplit(h0, n, path0, fullPath, parentFullPathIndex, i), n,
                     fullPath, handlers)

\* node.addRoute(path, handlers) on the tree rooted at h[n]: [heap, err]
addRoute(h0, n, path, handlers) ==
    LET h == [h0 EXCEPT ![n].priority = @ + 1] IN
    IF Len(h[n].path) = 0 /\ Len(h[n].children) = 0
    THEN LET r == insertChild(h, n, path, path, handlers) IN
         IF r.err # "" THEN r
         ELSE Ok([r.heap EXCEPT ![n].nType = "root"])
    ELSE addRouteWalk(h, n, path, path, 0, handlers)

----------------------------------------------------------------------------
(* url.QueryUnescape, as getValue uses it on captured values *)

HexDigits ==
    [c \in {"0", "1", "2", "3", "4", "5", "6", "7", "8", "9"} |->
        CASE c = "0" -> 0 [] c = "1" -> 1 [] c = "2" -> 2 [] c = "3" -> 3 [] c = "4" -> 4
          [] c = "5" -> 5 [] c = "6" -> 6 [] c = "7" -> 7 [] c = "8" -> 8 [] c = "9" -> 9]
    @@ [c \in {"A", "B", "C", "D", "E", "F"} |->
        CASE c = "A" -> 10 [] c = "B" -> 11 [] c = "C" -> 12 [] c = "D" -> 13
          [] c = "E" -> 14 [] c = "F" -> 15]
    @@ [c \in {"a", "b", "c", "d", "e", "f"} |->
        CASE c = "a" -> 10 [] c = "b" -> 11 [] c = "c" -> 12 [] c = "d" -> 13
          [] c = "e" -> 14 [] c = "f" -> 15]

ishex(c) == c \in DOMAIN HexDigits

unhex(c) == HexDigits[c]

\* the bytes the model's strings use, by code; any other byte prints as "?"
ByteChar(b) ==
    CASE b = 32 -> " " [] b = 37 -> "%" [] b = 42 -> "*" [] b = 43 -> "+" [] b = 47 -> "/"
      [] b = 58 -> ":" [] b = 65 -> "A" [] b = 66 -> "B" [] b = 97 -> "a" [] b = 98 -> "b"
      [] b = 99 -> "c" [] OTHER -> "?"

\* the first pass of url.unescape: every '%' is followed by two hex digits
RECURSIVE validEscapes(_, _)
validEscapes(s, i) ==
    IF i >= Len(s) THEN TRUE
    ELSE IF At(s, i) = "%"
    THEN /\ i + 2 < Len(s)
         /\ ishex(At(s, i + 1))
         /\ ishex(At(s, i + 2))
         /\ validEscapes(s, i + 3)
    ELSE validEscapes(s, i + 1)

\* the second pass of url.unescape in query mode
RECURSIVE decodeFrom(_, _)
decodeFrom(s, i) ==
    IF i >= Len(s) THEN <<>>
    ELSE IF At(s, i) = "%"
    THEN <<ByteChar(unhex(At(s, i + 1)) * 16 + unhex(At(s, i + 2)))>> \o decodeFrom(s, i + 3)
    ELSE IF At(s, i) = "+" THEN <<" ">> \o decodeFrom(s, i + 1)
    ELSE <<At(s, i)>> \o decodeFrom(s, i + 1)

\* url.QueryUnescape(s): [s, err]
QueryUnescape(s) ==
    IF validEscapes(s, 0) THEN [s |-> decodeFrom(s, 0), err |-> FALSE]
    ELSE [s |-> <<>>, err |-> TRUE]

\* a capture that takes the decoded value without looking at err
capturedUnchecked(val, unescape) == IF unescape THEN QueryUnescape(val).s ELSE val

\* val after "if unescape { if v, err := url.QueryUnescape(val); err == nil { val = v } }"
captured(val, unescape) ==
    IF unescape /\ ~QueryUnescape(val).err THEN QueryUnescape(val).s ELSE val

----------------------------------------------------------------------------
(* getValue *)

\* the zero nodeValue, and a nodeValue for a lookup that ended in a runtime panic
NoValue ==
    [handlers |-> NilHandlers, params |-> <<>>, tsr |-> FALSE, fullPath |-> <<>>, panic |-> ""]

\* the per-call state of getValue: the caller's skip stack (skippedNodes, with its
\* capacity), the caller's parameter slice (params, nil or with length and capacity),
\* globalParamsCount, and whether value.params has been set
CallState(skipCap, paramsNil, paramsCap, unescape) ==
    [skipped |-> <<>>, skipCap |-> skipCap, ps |-> <<>>, paramsNil |-> paramsNil,
     paramsCap |-> paramsCap, globalParamsCount |-> 0, valueParams |-> FALSE,
     unescape |-> unescape]

\* what the caller reads back: value.params is nil until a parameter is stored
Return(s, handlers, tsr, fullPath) ==
    [handlers |-> handlers, params |-> IF s.valueParams THEN s.ps ELSE <<>>,
     tsr |-> tsr, fullPath |-> fullPath, panic |-> ""]

Panic(s, msg) == [Return(s, NilHandlers, FALSE, <<>>) EXCEPT !.panic = msg]

\* the "for length := len(*skippedNodes); length > 0; length--" loops: pop until an
\* entry whose path ends with the current path
RECURSIVE popSkipped(_, _)
popSkipped(skipped, path) ==
    IF Len(skipped) = 0 THEN [found |-> FALSE, skipped |-> <<>>]
    ELSE
    LET e    == skipped[Len(skipped)]
        rest == SubSeq(skipped, 1, Len(skipped) - 1)
    IN  IF HasSuffix(e.path, path)
        THEN [found |-> TRUE, entry |-> e, skipped |-> rest]
        ELSE popSkipped(rest, path)

\* the call state after rolling back to the popped entry e; a reslice beyond the
\* length re-exposes slots of the backing array (read as zero Params)
restore(s, e, rest) ==
    LET k == e.paramsCount
        ps1 == IF ~s.valueParams THEN s.ps
               ELSE IF k <= Len(s.ps) THEN SubSeq(s.ps, 1, k)
               ELSE s.ps \o [j \in 1..(k - Len(s.ps)) |-> [Key |-> <<>>, Value |-> <<>>]]
    IN  [s EXCEPT !.skipped = rest, !.ps = ps1, !.globalParamsCount = k]

\* a save that stores the parameter but never hands the slice to value.params
saveParamUnassigned(s, key, val) ==
    IF s.paramsNil THEN [s |-> s, err |-> ""]
    ELSE [s |-> [s EXCEPT !.ps = Append(@, [Key |-> key, Value |-> val])], err |-> ""]

\* "save param value": s.globalParamsCount is already incremented; [s, err]
saveParam(s, key, val) ==
    IF s.paramsNil THEN [s |-> s, err |-> ""]
    ELSE
    LET cap1 == IF s.paramsCap < s.globalParamsCount THEN s.globalParamsCount
                ELSE s.paramsCap
    IN  IF Len(s.ps) + 1 > cap1
        THEN [s |-> s, err |-> "slice bounds out of range (params)"]
        ELSE [s |-> [s EXCEPT !.paramsCap = cap1, !.valueParams = TRUE,
                              !.ps = Append(@, [Key |-> key, Value |-> val])],
              err |-> ""]

\* the copy of the node that getValue pushes on the skip stack: every field but indices
skippedCopy(n) == [n EXCEPT !.indices = <<>>]

\* how one iteration of the walk loop ends: with "continue walk" on node n (a node
\* value) and the remaining path, or with a return or a panic of getValue
ContinueWalk(n, path, s) == [done |-> FALSE, node |-> n, path |-> path, s |-> s]

Returned(s, handlers, tsr, fullPath) ==
    [done |-> TRUE, value |-> Return(s, handlers, tsr, fullPath)]

Panicked(s, msg) == [done |-> TRUE, value |-> Panic(s, msg)]

\* one iteration of the walk loop of getValue; n is a node value (a node of the
\* heap, or the copy restored from the skip stack)
walk(h, n, path0, s) ==
    LET prefix == n.path IN
    IF Len(path0) > Len(prefix) /\ Slice(path0, 0, Len(prefix)) = prefix
    THEN
        LET path == From(path0, Len(prefix))
            idxc == At(path, 0)
            k    == IndexByte(n.indices, idxc)
        IN
        IF k >= 0
        THEN
            IF n.wildChild /\ Len(s.skipped) + 1 > s.skipCap
            THEN Panicked(s, "slice bounds out of range (skippedNodes)")
            ELSE IF k >= Len(n.children) THEN Panicked(s, "index out of range (children)")
            ELSE
            LET s1 == IF n.wildChild
                      THEN [s EXCEPT !.skipped = Append(@, [path |-> prefix \o path,
                                                            node |-> skippedCopy(n),
                                                            paramsCount |-> s.globalParamsCount])]
                      ELSE s
            IN  ContinueWalk(h[n.children[k + 1]], path, s1)
        ELSE IF ~n.wildChild
        THEN
            LET b == IF path # <<"/">> THEN popSkipped(s.skipped, path)
                     ELSE [found |-> FALSE, skipped |-> s.skipped]
            IN  IF b.found
                THEN IF s.valueParams /\ b.entry.paramsCount > s.paramsCap
                     THEN Panicked(s, "slice bounds out of range (params)")
                     ELSE ContinueWalk(b.entry.node, b.entry.path,
                                       restore(s, b.entry, b.skipped))
                ELSE Returned(s, NilHandlers, path = <<"/">> /\ n.handlers # NilHandlers, <<>>)
        ELSE IF Len(n.children) = 0 THEN Panicked(s, "index out of range (children)")
        ELSE
            LET w  == h[n.children[Len(n.children)]]
                s1 == [s EXCEPT !.globalParamsCount = @ + 1]
            IN
            IF w.nType = "param"
            THEN
                LET slash == IndexByte(path, "/")
                    end   == IF slash < 0 THEN Len(path) ELSE slash
                    sv    == IF ~s1.paramsNil /\ Len(w.path) < 1
                             THEN [s |-> s1, err |-> "slice bounds out of range (key)"]
                             ELSE saveParam(s1, From(w.path, Min(1, Len(w.path))),
                                            captured(Slice(path, 0, end), s1.unescape))
                    s2    == sv.s
                IN
                IF sv.err # "" THEN Panicked(s1, sv.err)
                ELSE IF end < Len(path)
                THEN IF Len(w.children) > 0
                     THEN ContinueWalk(h[w.children[1]], From(path, end), s2)
                     ELSE Returned(s2, NilHandlers, Len(path) = end + 1, <<>>)
                ELSE IF w.handlers # NilHandlers
                THEN Returned(s2, w.handlers, FALSE, w.fullPath)
                ELSE IF Len(w.children) = 1
                THEN LET c == h[w.children[1]] IN
                     Returned(s2, NilHandlers,
                            \/ c.path = <<"/">> /\ c.handlers # NilHandlers
                            \/ c.path = <<>> /\ c.indices = <<"/">>,
                            <<>>)
                ELSE Returned(s2, NilHandlers, FALSE, <<>>)
            ELSE IF w.nType = "catchAll"
            THEN
                LET sv == IF ~s1.paramsNil /\ Len(w.path) < 2
                          THEN [s |-> s1, err |-> "slice bounds out of range (key)"]
                          ELSE saveParam(s1, From(w.path, Min(2, Len(w.path))),
                                         captured(path, s1.unescape))
                IN  IF sv.err # "" THEN Panicked(s1, sv.err)
                    ELSE Returned(sv.s, w.handlers, FALSE, w.fullPath)
            ELSE Panicked(s1, "invalid node type")
    ELSE IF path0 = prefix
    THEN
        LET path == path0
            b == IF n.handlers = NilHandlers /\ path # <<"/">>
                 THEN popSkipped(s.skipped, path)
                 ELSE [found |-> FALSE, skipped |-> s.skipped]
            s1 == [s EXCEPT !.skipped = b.skipped]
            slashIdx == IndexByte(n.indices, "/")
        IN
        IF b.found
        THEN IF s.valueParams /\ b.entry.paramsCount > s.paramsCap
             THEN Panicked(s, "slice bounds out of range (params)")
             ELSE ContinueWalk(b.entry.node, b.entry.path, restore(s, b.entry, b.skipped))
        ELSE IF n.handlers # NilHandlers THEN Returned(s1, n.handlers, FALSE, n.fullPath)
        ELSE IF path = <<"/">> /\ n.wildChild /\ n.nType # "root"
        THEN Returned(s1, NilHandlers, TRUE, <<>>)
        ELSE IF path = <<"/">> /\ n.nType = "static"
        THEN Returned(s1, NilHandlers, TRUE, <<>>)
        ELSE IF slashIdx >= 0
        THEN IF slashIdx >= Len(n.children) THEN Panicked(s1, "index out of range (children)")
             ELSE
             LET c == h[n.children[slashIdx + 1]] IN
             IF Len(c.path) = 1 /\ c.handlers # NilHandlers
             THEN Returned(s1, NilHandlers, TRUE, <<>>)
             ELSE IF c.nType = "catchAll"
             THEN IF Len(c.children) = 0 THEN Panicked(s1, "index out of range (children)")
                  ELSE Returned(s1, NilHandlers, h[c.children[1]].handlers # NilHandlers, <<>>)
             ELSE Returned(s1, NilHandlers, FALSE, <<>>)
        ELSE Returned(s1, NilHandlers, FALSE, <<>>)
    ELSE
        LET path == path0
            tsr  == \/ path = <<"/">>
                    \/ /\ Len(prefix) = Len(path) + 1
                       /\ At(prefix, Len(path)) = "/"
                       /\ path = Slice(prefix, 0, Len(prefix) - 1)
                       /\ n.handlers # NilHandlers
            b == IF ~tsr /\ path # <<"/">>
                 THEN popSkipped(s.skipped, path)
                 ELSE [found |-> FALSE, skipped |-> s.skipped]
        IN
        IF b.found
        THEN IF s.valueParams /\ b.entry.paramsCount > s.paramsCap
             THEN Panicked(s, "slice bounds out of range (params)")
             ELSE ContinueWalk(b.entry.node, b.entry.path, restore(s, b.entry, b.skipped))
        ELSE Returned([s EXCEPT !.skipped = b.skipped], NilHandlers, tsr, <<>>)

\* the walk loop of getValue from the iteration that ended as r on
RECURSIVE getValueWalk(_, _, _, _)
walkOn(h, r) ==
    IF r.done THEN r.value ELSE getValueWalk(h, r.node, r.path, r.s)

getValueWalk(h, n, path0, s) == walkOn(h, walk(h, n, path0, s))

\* node.getValue(path, params, skippedNodes, unescape) on the tree rooted at h[n]
getValue(h, n, path, skipCap, paramsNil, paramsCap, unescape) ==
    getValueWalk(h, h[n], path, CallState(skipCap, paramsNil, paramsCap, unescape))

----------------------------------------------------------------------------
(* findCaseInsensitivePath *)
(* Paths are ASCII here: a rune is one byte, so the rune buffer rb holds at *)
(* most one pending byte in rb[0]; the zero byte is written NUL.            *)

NUL == ""

Letters == <<"a", "b", "c", "x", "y">>

Capitals == <<"A", "B", "C", "X", "Y">>

\* unicode.ToLower and unicode.ToUpper
ToLower(c) ==
    IF \E k \in 1..Len(Capitals) : Capitals[k] = c
    THEN Letters[CHOOSE k \in 1..Len(Capitals) : Capitals[k] = c]
    ELSE c

ToUpper(c) ==
    IF \E k \in 1..Len(Letters) : Letters[k] = c
    THEN Capitals[CHOOSE k \in 1..Len(Letters) : Letters[k] = c]
    ELSE c

\* strings.EqualFold
EqualFold(s, t) ==
    /\ Len(s) = Len(t)
    /\ \A k \in 1..Len(s) : ToLower(s[k]) = ToLower(t[k])

shiftNRuneBytes(rb, n) ==
    CASE n = 0 -> rb
      [] n = 1 -> <<rb[2], rb[3], rb[4], NUL>>
      [] n = 2 -> <<rb[3], rb[4], NUL, NUL>>
      [] n = 3 -> <<rb[4], NUL, NUL, NUL>>
      [] OTHER -> <<NUL, NUL, NUL, NUL>>

CiFound(ciPath) == [found |-> TRUE, path |-> ciPath, panic |-> ""]

CiNil == [found |-> FALSE, path |-> <<>>, panic |-> ""]

CiPanic(msg) == [found |-> FALSE, path |-> <<>>, panic |-> msg]

\* node.findCaseInsensitivePathRec on h[nid]; "continue walk" is a call on the
\* node walked into, which starts from the same npLen, path, ciPath and rb
RECURSIVE findCaseInsensitivePathRec(_, _, _, _, _, _)
findCaseInsensitivePathRec(h, nid, path0, ciPath0, rb0, fixTrailingSlash) ==
    LET n     == h[nid]
        npLen == Len(n.path)
    IN
    IF Len(path0) >= npLen
       /\ (npLen = 0 \/ EqualFold(Slice(path0, 1, npLen), From(n.path, 1)))
    THEN
        LET oldPath == path0
            path    == From(path0, npLen)
            ciPath  == ciPath0 \o n.path
            slashIdx == IndexByte(n.indices, "/")
            notFound == IF fixTrailingSlash /\ path = <<"/">> /\ n.handlers # NilHandlers
                        THEN CiFound(ciPath) ELSE CiNil
        IN
        IF Len(path) = 0
        THEN IF n.handlers # NilHandlers THEN CiFound(ciPath)
             ELSE IF fixTrailingSlash /\ slashIdx >= 0
             THEN IF slashIdx >= Len(n.children) THEN CiPanic("index out of range (children)")
                  ELSE
                  LET c == h[n.children[slashIdx + 1]] IN
                  IF Len(c.path) = 1 /\ c.handlers # NilHandlers THEN CiFound(Append(ciPath, "/"))
                  ELSE IF c.nType = "catchAll"
                  THEN IF Len(c.children) = 0 THEN CiPanic("index out of range (children)")
                       ELSE IF h[c.children[1]].handlers # NilHandlers
                       THEN CiFound(Append(ciPath, "/"))
                       ELSE CiNil
                  ELSE CiNil
             ELSE CiNil
        ELSE IF ~n.wildChild
        THEN
            LET rb == shiftNRuneBytes(rb0, npLen) IN
            IF rb[1] # NUL
            THEN LET k == IndexByte(n.indices, rb[1]) IN
                 IF k < 0 THEN notFound
                 ELSE IF k >= Len(n.children) THEN CiPanic("index out of range (children)")
                 ELSE findCaseInsensitivePathRec(h, n.children[k + 1], path, ciPath, rb,
                                                 fixTrailingSlash)
            ELSE
                LET rv  == IF npLen >= 1 THEN At(oldPath, npLen) ELSE NUL
                    lo  == ToLower(rv)
                    up  == ToUpper(rv)
                    rbl == [rb EXCEPT ![1] = lo]
                    rbu == [rb EXCEPT ![1] = up]
                    kl  == IndexByte(n.indices, lo)
                    ku  == IndexByte(n.indices, up)
                    out == IF kl < 0 THEN CiNil
                           ELSE IF kl >= Len(n.children)
                           THEN CiPanic("index out of range (children)")
                           ELSE findCaseInsensitivePathRec(h, n.children[kl + 1], path, ciPath,
                                                           rbl, fixTrailingSlash)
                IN  IF out.found \/ out.panic # "" THEN out
                    ELSE IF up # lo /\ ku >= 0
                    THEN IF ku >= Len(n.children) THEN CiPanic("index out of range (children)")
                         ELSE findCaseInsensitivePathRec(h, n.children[ku + 1], path, ciPath,
                                                         rbu, fixTrailingSlash)
                    ELSE notFound
        ELSE IF Len(n.children) = 0 THEN CiPanic("index out of range (children)")
        ELSE
            LET w == h[n.children[1]] IN
            IF w.nType = "param"
            THEN
                LET slash   == IndexByte(path, "/")
                    end     == IF slash < 0 THEN Len(path) ELSE slash
                    ciPath1 == ciPath \o Slice(path, 0, end)
                IN
                IF end < Len(path)
                THEN IF Len(w.children) > 0
                     THEN findCaseInsensitivePathRec(h, w.children[1], From(path, end), ciPath1,
                                                     rb0, fixTrailingSlash)
                     ELSE IF fixTrailingSlash /\ Len(path) = end + 1 THEN CiFound(ciPath1)
                     ELSE CiNil
                ELSE IF w.handlers # NilHandlers THEN CiFound(ciPath1)
                ELSE IF /\ fixTrailingSlash
                        /\ Len(w.children) = 1
                        /\ h[w.children[1]].path = <<"/">>
                        /\ h[w.children[1]].handlers # NilHandlers
                THEN CiFound(Append(ciPath1, "/"))
                ELSE CiNil
            ELSE IF w.nType = "catchAll" THEN CiFound(ciPath \o path)
            ELSE CiPanic("invalid node type")
    ELSE IF ~fixTrailingSlash THEN CiNil
    ELSE IF path0 = <<"/">> THEN CiFound(ciPath0)
    ELSE IF Len(path0) + 1 = npLen /\ At(n.path, Len(path0)) = "/"
    THEN IF Len(path0) < 1 THEN CiPanic("slice bounds out of range (path)")
         ELSE IF EqualFold(From(path0, 1), Slice(n.path, 1, Len(path0)))
                 /\ n.handlers # NilHandlers
         THEN CiFound(ciPath0 \o n.path)
         ELSE CiNil
    ELSE CiNil

\* node.findCaseInsensitivePath(path, fixTrailingSlash): [found, path, panic]
findCaseInsensitivePath(h, n, path, fixTrailingSlash) ==
    findCaseInsensitivePathRec(h, n, path, <<>>, <<NUL, NUL, NUL, NUL>>, fixTrailingSlash)

----------------------------------------------------------------------------
(* Engine *)

\* cap of Context.SkippedNodes as Context.reset allocates it
SkippedNodesCap == 256

\* a get that returns the root of the first tree, whatever its method
getFirst(trees, method) == IF trees = <<>> THEN 0 ELSE trees[1].root

\* methodTrees.get(method): the root of the method's tree, 0 for nil
get(trees, method) ==
    IF \E k \in 1..Len(trees) : trees[k].method = method
    THEN trees[CHOOSE k \in 1..Len(trees) :
                   /\ trees[k].method = method
                   /\ \A j \in 1..(k - 1) : trees[j].method # method].root
    ELSE 0

\* Engine.registerMethodTree(method): [heap, trees, root]
registerMethodTree(h, trees, method) ==
    IF get(trees, method) # 0
    THEN [heap |-> h, trees |-> trees, root |-> get(trees, method)]
    ELSE [heap |-> Append(h, [ZeroNode EXCEPT !.nType = "root", !.fullPath = <<"/">>]),
          trees |-> Append(trees, [method |-> method, root |-> Len(h) + 1]),
          root |-> Len(h) + 1]

\* what Engine.addRoute leaves when root.addRoute returned or panicked with r
registered(r, trees, maxP) ==
    [heap |-> r.heap, trees |-> trees, maxParams |-> maxP, err |-> r.err]

\* Engine.addRoute(method, absolutePath, groupPath, handlers):
\* [heap, trees, maxParams, err]
engineAddRoute(h, trees, maxP, method, absolutePath, handlers) ==
    IF absolutePath = <<>>
    THEN [heap |-> h, trees |-> trees, maxParams |-> maxP,
          err |-> "absolute path must not be empty"]
    ELSE IF Len(handlers) = 0
    THEN [heap |-> h, trees |-> trees, maxParams |-> maxP,
          err |-> "handlers must not be empty"]
    ELSE
    LET n == countParams(absolutePath)
        t == registerMethodTree(h, trees, method)
    IN  registered(addRoute(t.heap, t.root, absolutePath, handlers), t.trees,
                   IF n > maxP THEN n ELSE maxP)

\* the settings of New()
RedirectTrailingSlash == TRUE

RedirectFixedPath == TRUE

HandleMethodNotAllowed == TRUE

\* MethodNotAllowed for a request whose method is not OPTIONS: the loop over the
\* trees of the other methods, from tree k on:
\* "panic", "405" or "404" (the chain goes on to NotFound)
RECURSIVE otherMethods(_, _, _, _, _)
otherMethods(h, trees, k, httpMethod, requestPath) ==
    IF k > Len(trees) THEN "404"
    ELSE IF trees[k].method = httpMethod
    THEN otherMethods(h, trees, k + 1, httpMethod, requestPath)
    ELSE LET value == getValue(h, trees[k].root, requestPath, 0, TRUE, 0, FALSE) IN
         IF value.panic # "" THEN "panic"
         ELSE IF value.handlers # NilHandlers THEN "405"
         ELSE otherMethods(h, trees, k + 1, httpMethod, requestPath)

\* the chain handleRequest runs when no route and no redirect was found
noRoute(h, trees, httpMethod, requestPath) ==
    IF HandleMethodNotAllowed THEN otherMethods(h, trees, 1, httpMethod, requestPath)
    ELSE "404"

\* a redirectPath that always gains a '/'
toggleSlashAppend(requestPath) == Append(requestPath, "/")

\* redirectPath of the trailing-slash redirect
toggleSlash(requestPath) ==
    IF Len(requestPath) > 0 /\ At(requestPath, Len(requestPath) - 1) = "/"
    THEN Slice(requestPath, 0, Len(requestPath) - 1)
    ELSE Append(requestPath, "/")

\* what handleRequest does with the nodeValue it got from the method's tree
routed(value, h, trees, rootNode, httpMethod, requestPath) ==
    LET base == [outcome |-> "404", value |-> value, handlers |-> NilHandlers,
                 params |-> value.params, location |-> <<>>]
        redirects == httpMethod # "CONNECT" /\ requestPath # <<"/">>
        ci == findCaseInsensitivePath(h, rootNode, requestPath, RedirectTrailingSlash)
    IN
    IF value.panic # "" THEN [base EXCEPT !.outcome = "panic"]
    ELSE IF value.handlers # NilHandlers
    THEN [base EXCEPT !.outcome = "handlers", !.handlers = value.handlers]
    ELSE IF redirects /\ value.tsr /\ RedirectTrailingSlash
    THEN [base EXCEPT !.outcome = "301", !.location = toggleSlash(requestPath)]
    ELSE IF redirects /\ ci.panic # ""
    THEN [base EXCEPT !.outcome = "panic"]
    ELSE IF redirects /\ ci.found /\ RedirectFixedPath
    THEN [base EXCEPT !.outcome = "301", !.location = ci.path]
    ELSE [base EXCEPT !.outcome = noRoute(h, trees, httpMethod, requestPath)]

\* Engine.handleRequest for a request (httpMethod, requestPath), c.Params having
\* capacity paramsCap: [outcome, value, handlers, params, location]
handleRequest(h, trees, httpMethod, requestPath, paramsCap) ==
    IF get(trees, httpMethod) # 0
    THEN routed(getValue(h, get(trees, httpMethod), requestPath, 0, FALSE, paramsCap, TRUE),
                h, trees, get(trees, httpMethod), httpMethod, requestPath)
    ELSE [outcome |-> noRoute(h, trees, httpMethod, requestPath), value |-> NoValue,
          handlers |-> NilHandlers, params |-> <<>>, location |-> <<>>]

----------------------------------------------------------------------------
(* Inputs *)

\* registration attempts per run
MaxAttempts == 3

\* goroutines that serve requests at the same time
MaxGoroutines == 2

\* route patterns of the tree the concurrent lookups run on
ConcRoutes ==
    { <<"/", "a">>, <<"/", "a", "/", "b">>, <<"/", ":", "x">>, <<"/", ":", "x", "/", "a">> }

\* request paths of the concurrent lookups
ConcPaths ==
    { <<"/", "a">>, <<"/", "a", "/">>, <<"/", "a", "/", "b">>, <<"/", "b", "/", "a">> }

\* segments per request path
MaxReqSegs == 3

Methods == {"GET"}

\* well-formed route patterns, as Engine.Handle passes them on (cleaned, absolute)
Routes ==
    { <<"/">>,
      <<"/", "a">>,
      <<"/", "a", "/">>,
      <<"/", "a", "b">>,
      <<"/", "a", "/", "b">>,
      <<"/", ":", "x">>,
      <<"/", ":", "x", "/">>,
      <<"/", ":", "x", "/", "a">>,
      <<"/", ":", "x", "/", ":", "y">>,
      <<"/", "a", "/", ":", "x">>,
      <<"/", "a", "/", ":", "x", "/", "b">>,
      <<"/", "a", "/", "*", "x">>,
      <<"/", "*", "x">>,
      <<"/", ":", "x", "/", "*", "y">> }

\* further patterns that collide with the ones above
ClashRoutes ==
    { <<"/", "a", "/", ":", "y">>,
      <<"/", "a", "/", ":", "x", "y">>,
      <<"/", "a", "/", "*", "y">> }

\* malformed route patterns
BadRoutes ==
    { <<"/", "a", "/", ":">>,
      <<"/", "a", "/", "*">>,
      <<"/", ":", "/", "a">>,
      <<"/", "a", "/", ":", "x", ":", "y">>,
      <<"/", "a", "/", ":", "x", "*", "y">>,
      <<"/", "a", "/", "*", "x", ":", "y">>,
      <<"/", "a", "/", "*", "x", "/", "b">>,
      <<"/", "*", "x", "/">>,
      <<"/", "a", "*", "x">> }

RegRoutes == Routes \cup ClashRoutes \cup BadRoutes

ReqSegs == { <<>>, <<"a">>, <<"b">> }

\* "/" s1 "/" s2 ... for a sequence of segments
RECURSIVE JoinSegs(_)
JoinSegs(segs) ==
    IF Len(segs) = 0 THEN <<>>
    ELSE <<"/">> \o segs[1] \o JoinSegs(Tail(segs))

SegPaths == UNION { {JoinSegs(ss) : ss \in [1..k -> ReqSegs]} : k \in 1..MaxReqSegs }

\* request paths with escapes in a segment
EscapedPaths ==
    { <<"/", "a", "+", "b">>,
      <<"/", "a", "/", "%", "2", "F">>,
      <<"/", "a", "/", "%", "2">>,
      <<"/", "a", "/", "a", "+", "b", "/", "b">> }

RequestPaths == SegPaths \cup EscapedPaths \cup { <<>> }

\* the lookups tried after registration attempts that may have failed
RegRequestPaths ==
    { <<"/">>, <<"/", "a">>, <<"/", "a", "/">>, <<"/", "a", "b">>, <<"/", "a", "/", "b">>,
      <<"/", "b">>, <<"/", "b", "/">>, <<"/", "b", "/", "a">>, <<"/", "a", "/", "b", "/", "b">> }

\* getValue's inputs: unescape matters for the paths with escapes only
Lookups == (RequestPaths \X {FALSE}) \cup (EscapedPaths \X {TRUE})

\* route patterns that differ in the case of their letters, with and without
\* wildcards beside them
CiRoutes ==
    { <<"/">>, <<"/", "a">>, <<"/", "A">>,
      <<"/", "a", "b">>, <<"/", "A", "b">>, <<"/", "a", "B">>,
      <<"/", "a", "/">>, <<"/", "a", "/", "b">>, <<"/", "A", "/", "b">>,
      <<"/", ":", "x">>, <<"/", "a", "/", ":", "x">>, <<"/", "A", "/", ":", "x">>,
      <<"/", "*", "x">>, <<"/", "a", "/", "*", "x">> }

\* request paths for the case-insensitive search
CiPaths ==
    { <<>>, <<"/">>, <<"/", "a">>,
      <<"/", "A">>, <<"/", "a", "b">>, <<"/", "A", "B">>,
      <<"/", "A", "b">>, <<"/", "a", "B">>, <<"/", "a", "/">>,
      <<"/", "A", "/">>, <<"/", "a", "/", "b">>, <<"/", "A", "/", "B">>,
      <<"/", "a", "/", "B">>, <<"/", "A", "/", "b">>, <<"/", "b">>,
      <<"/", "B">>, <<"/", "a", "/", "b", "/">>, <<"/", "A", "/", "B", "/">> }

\* route patterns with an escaped colon, beside patterns with a named parameter
\* in the same place, and one with a backslash that escapes nothing
EscRoutes ==
    { <<"/", "a", "\\", ":", "b">>, <<"/", "\\", ":", "x">>, <<"/", "a", "\\", ":", "b", "/", ":", "x">>,
      <<"/", "a">>, <<"/", ":", "x">>, <<"/", "a", ":", "b">>,
      <<"/", "a", "\\", "b">> }

\* request paths with a colon, with and without a backslash before it
EscPaths ==
    { <<"/", "a", ":", "b">>, <<"/", "a", "\\", ":", "b">>, <<"/", ":", "x">>,
      <<"/", "\\", ":", "x">>, <<"/", "a">>, <<"/", "b">>,
      <<"/", "a", ":", "b", "/", "c">>, <<"/", "a", "\\", ":", "b", "/", "c">> }

\* route patterns that use a wildcard name twice, beside patterns that do not
DupRoutes ==
    { <<"/", ":", "x", "/", ":", "x">>, <<"/", ":", "x", "/", "*", "x">>, <<"/", "a", "/", ":", "x", "/", ":", "x">>,
      <<"/", ":", "x">>, <<"/", ":", "x", "/", ":", "y">>, <<"/", "a", "/", ":", "x">> }

\* the methods of a router with two trees
TwoMethods == {"GET", "POST"}

\* route patterns registered under either method, two of which collide
MethRoutes ==
    { <<"/", "a">>, <<"/", "a", "/">>, <<"/", "a", "/", "b">>, <<"/", ":", "x">>, <<"/", ":", "y">> }

\* request paths looked up under either method
MethPaths ==
    { <<"/", "a">>, <<"/", "a", "/">>, <<"/", "a", "/", "b">>, <<"/", "b">>, <<"/", "A">> }

----------------------------------------------------------------------------
(* Operations *)

Init ==
    /\ heap = <<>>
    /\ methodTrees = <<>>
    /\ maxParams = 0
    /\ routesInfo = <<>>
    /\ attempts = 0
    /\ result = [op |-> "none"]
    /\ goroutines = [g \in 1..MaxGoroutines |-> [pc |-> "idle"]]

\* the state after Engine.addRoute returned or panicked with r: the route is listed
\* in routesInfo only when it returned
Registration(r, method, path, handlers) ==
    /\ heap' = r.heap
    /\ methodTrees' = r.trees
    /\ maxParams' = r.maxParams
    /\ routesInfo' = IF r.err = ""
                     THEN Append(routesInfo, [Method |-> method, Path |-> path,
                                              Handler |-> handlers])
                     ELSE routesInfo
    /\ attempts' = attempts + 1
    /\ result' = [op |-> "addRoute", method |-> method, path |-> path,
                  handlers |-> handlers, err |-> r.err, before |-> routesInfo]
    /\ UNCHANGED goroutines

\* Engine.addRoute(method, path, _, handlers) with a fresh one-handler chain
AddRoute(method, path) ==
    /\ attempts < MaxAttempts
    /\ Registration(engineAddRoute(heap, methodTrees, maxParams, method, path,
                                   <<attempts + 1>>),
                    method, path, <<attempts + 1>>)

\* node.getValue on the method's root with the buffers a Context holds: a Params
\* slice still to grow (capacity 0) and c.SkippedNodes
GetValue(method, path, unescape) ==
    /\ get(methodTrees, method) # 0
    /\ result' = [op |-> "getValue", method |-> method, path |-> path,
                  unescape |-> unescape,
                  value |-> getValue(heap, get(methodTrees, method), path,
                                     SkippedNodesCap, FALSE, 0, unescape)]
    /\ UNCHANGED <<heap, methodTrees, maxParams, routesInfo, attempts, goroutines>>

\* the response r to a request, recorded
Response(r, method, path) ==
    result' = [op |-> "handleRequest", method |-> method, path |-> path,
               outcome |-> r.outcome, value |-> r.value, handlers |-> r.handlers,
               params |-> r.params, location |-> r.location]

\* Engine.ServeHTTP for a request, with a pooled Context whose Params were allocated
\* before or after the routes were added
HandleRequest(method, path) ==
    /\ \E paramsCap \in {0, maxParams} :
         Response(handleRequest(heap, methodTrees, method, path, paramsCap), method, path)
    /\ UNCHANGED <<heap, methodTrees, maxParams, routesInfo, attempts, goroutines>>

\* the outcome r of a case-insensitive search, recorded
Fixed(r, method, path, fixTrailingSlash) ==
    result' = [op |-> "findCaseInsensitivePath", method |-> method, path |-> path,
               fixTrailingSlash |-> fixTrailingSlash,
               ciPath |-> r.path, found |-> r.found, panic |-> r.panic]

\* node.findCaseInsensitivePath on the method's root
FindCaseInsensitivePath(method, path, fixTrailingSlash) ==
    /\ get(methodTrees, method) # 0
    /\ Fixed(findCaseInsensitivePath(heap, get(methodTrees, method), path,
                                     fixTrailingSlash),
             method, path, fixTrailingSlash)
    /\ UNCHANGED <<heap, methodTrees, maxParams, routesInfo, attempts, goroutines>>

\* a lookup that counts its visits in the root's priority
nodesAfterLookupCounted(h, n) == [h EXCEPT ![n].priority = @ + 1]

\* the nodes after a step of a lookup: getValue and findCaseInsensitivePathRec
\* assign to their locals, to value and to the caller's buffers, to no node field
nodesAfterLookup(h, n) == h

\* a goroutine calls getValue on the method's root with its own buffers
BeginGetValue(g, method, path) ==
    /\ goroutines[g].pc = "idle"
    /\ get(methodTrees, method) # 0
    /\ goroutines' = [goroutines EXCEPT ![g] =
                         [pc |-> "walk", op |-> "getValue", method |-> method,
                          path0 |-> path, node |-> heap[get(methodTrees, method)],
                          path |-> path,
                          s |-> CallState(SkippedNodesCap, FALSE, 0, FALSE)]]
    /\ UNCHANGED <<heap, methodTrees, maxParams, routesInfo, attempts, result>>

\* the goroutine after the iteration of the walk loop that ended as r
Walked(g, r) ==
    goroutines' = [goroutines EXCEPT ![g] =
                      IF r.done
                      THEN [pc |-> "done", op |-> "getValue", method |-> @.method,
                            path0 |-> @.path0, value |-> r.value]
                      ELSE [@ EXCEPT !.node = r.node, !.path = r.path, !.s = r.s]]

\* one iteration of the walk loop of a goroutine's getValue
Walk(g) ==
    /\ goroutines[g].pc = "walk"
    /\ Walked(g, walk(heap, goroutines[g].node, goroutines[g].path, goroutines[g].s))
    /\ heap' = nodesAfterLookup(heap, get(methodTrees, goroutines[g].method))
    /\ UNCHANGED <<methodTrees, maxParams, routesInfo, attempts, result>>

\* the goroutine after a case-insensitive search that ended as r
Searched(g, r, method, path, fixTrailingSlash) ==
    goroutines' = [goroutines EXCEPT ![g] =
                      [pc |-> "done", op |-> "findCaseInsensitivePath", method |-> method,
                       path0 |-> path, fixTrailingSlash |-> fixTrailingSlash,
                       ciPath |-> r.path, found |-> r.found, panic |-> r.panic]]

\* a goroutine runs findCaseInsensitivePath on the method's root
Search(g, method, path, fixTrailingSlash) ==
    /\ goroutines[g].pc = "idle"
    /\ get(methodTrees, method) # 0
    /\ Searched(g, findCaseInsensitivePath(heap, get(methodTrees, method), path,
                                           fixTrailingSlash),
                method, path, fixTrailingSlash)
    /\ heap' = nodesAfterLookup(heap, get(methodTrees, method))
    /\ UNCHANGED <<methodTrees, maxParams, routesInfo, attempts, result>>

\* A lookup changes nothing but the recorded result, so every operation enabled
\* after it leads to the state it leads to before it: the search takes the
\* operations from the states a registration (or construction) left.
Settled == result.op \in {"none", "addRoute"}

Next ==
    \/ \E method \in Methods, path \in Routes : Settled /\ AddRoute(method, path)
    \/ \E method \in Methods, l \in Lookups : Settled /\ GetValue(method, l[1], l[2])
    \/ \E method \in Methods, path \in RequestPaths : Settled /\ HandleRequest(method, path)

Spec == Init /\ [][Next]_vars

\* registration with colliding and malformed patterns, and lookups afterwards
NextReg ==
    \/ \E method \in Methods, path \in RegRoutes : Settled /\ AddRoute(method, path)
    \/ \E method \in Methods, path \in RegRequestPaths :
         Settled /\ GetValue(method, path, FALSE)

SpecReg == Init /\ [][NextReg]_vars

\* registration of patterns that differ in case, and case-insensitive searches
NextCi ==
    \/ \E method \in Methods, path \in CiRoutes : Settled /\ AddRoute(method, path)
    \/ \E method \in Methods, path \in CiPaths, fixTrailingSlash \in BOOLEAN :
         Settled /\ FindCaseInsensitivePath(method, path, fixTrailingSlash)

SpecCi == Init /\ [][NextCi]_vars

\* registration of patterns with escaped colons, and lookups afterwards
NextEsc ==
    \/ \E method \in Methods, path \in EscRoutes : Settled /\ AddRoute(method, path)
    \/ \E method \in Methods, path \in EscPaths : Settled /\ GetValue(method, path, FALSE)

SpecEsc == Init /\ [][NextEsc]_vars

\* registration of patterns with repeated wildcard names, and lookups afterwards
NextDup ==
    \/ \E method \in Methods, path \in DupRoutes : Settled /\ AddRoute(method, path)
    \/ \E method \in Methods, path \in SegPaths : Settled /\ GetValue(method, path, FALSE)

SpecDup == Init /\ [][NextDup]_vars

\* registrations and requests under two methods
NextMeth ==
    \/ \E method \in TwoMethods, path \in MethRoutes : Settled /\ AddRoute(method, path)
    \/ \E method \in TwoMethods, path \in MethPaths :
         Settled /\ GetValue(method, path, FALSE)
    \/ \E method \in TwoMethods, path \in MethPaths, fixTrailingSlash \in BOOLEAN :
         Settled /\ FindCaseInsensitivePath(method, path, fixTrailingSlash)
    \/ \E method \in TwoMethods, path \in MethPaths : Settled /\ HandleRequest(method, path)

SpecMeth == Init /\ [][NextMeth]_vars

\* no goroutine has started a lookup: the tree is still being built
Building == \A g \in 1..MaxGoroutines : goroutines[g].pc = "idle"

\* registrations, then lookups of several goroutines on the built tree, their
\* steps interleaved in every order
NextConc ==
    \/ \E method \in Methods, path \in ConcRoutes : Building /\ AddRoute(method, path)
    \/ \E g \in 1..MaxGoroutines, method \in Methods, path \in ConcPaths :
         BeginGetValue(g, method, path)
    \/ \E g \in 1..MaxGoroutines : Walk(g)
    \/ \E g \in 1..MaxGoroutines, method \in Methods, path \in ConcPaths,
          fixTrailingSlash \in BOOLEAN : Search(g, method, path, fixTrailingSlash)

SpecConc == Init /\ [][NextConc]_vars

----------------------------------------------------------------------------
(* What a route pattern matches, stated independently of the tree *)

\* s up to (not including) its first '/'
Segment(s) == IF IndexByte(s, "/") < 0 THEN s ELSE Slice(s, 0, IndexByte(s, "/"))

\* the parameters pattern binds on path: <<>> when the pattern has no wildcards.
\* Literal parts are byte-equal, :name takes a non-empty segment, a final /*name
\* takes the rest of the path from its '/' on.  [ok, params]
RECURSIVE Bind(_, _)
Bind(pattern, path) ==
    IF pattern = <<>> THEN [ok |-> path = <<>>, params |-> <<>>]
    ELSE IF pattern[1] = ":"
    THEN LET name == Segment(Tail(pattern))
             seg  == Segment(path)
             rest == Bind(From(pattern, 1 + Len(name)), From(path, Len(seg)))
         IN  [ok |-> Len(seg) > 0 /\ rest.ok,
              params |-> <<[Key |-> name, Value |-> seg]>> \o rest.params]
    ELSE IF Len(pattern) >= 2 /\ pattern[1] = "/" /\ pattern[2] = "*"
    THEN [ok |-> path # <<>> /\ path[1] = "/",
          params |-> <<[Key |-> From(pattern, 2), Value |-> path]>>]
    ELSE IF path # <<>> /\ path[1] = pattern[1]
    THEN Bind(Tail(pattern), Tail(path))
    ELSE [ok |-> FALSE, params |-> <<>>]

Matches(pattern, path) == Bind(pattern, path).ok

WildcardFree(pattern) == \A k \in 1..Len(pattern) : pattern[k] \notin {":", "*"}

\* the wildcard markers of a pattern, left to right
Wildcards(pattern) == SelectSeq(pattern, LAMBDA c : c \in {":", "*"})

\* the registrations that succeeded, and whether every attempt so far did
Registered == {routesInfo[k].Path : k \in 1..Len(routesInfo)}

AllSucceeded == attempts = Len(routesInfo)

\* the chain registered for a registered path, by its first registration
HandlersOf(path) ==
    routesInfo[CHOOSE k \in 1..Len(routesInfo) :
                  /\ routesInfo[k].Path = path
                  /\ \A j \in 1..(k - 1) : routesInfo[j].Path # path].Handler

Looked == result.op = "getValue"

----------------------------------------------------------------------------
(* Claims *)

C2_MatchedIsServed ==
    (Looked /\ AllSucceeded /\ \E r \in Registered : Matches(r, result.path))
        => result.value.handlers # NilHandlers

\* C3 as stated: the getValue call of Engine.handleRequest never ends in a runtime
\* error.
C3_DispatchLookupReturns ==
    result.op = "handleRequest" => result.value.panic = ""

\* the only route registered, when the one attempt made registered a pattern whose
\* wildcards are all named parameters
OnlyParamRoute ==
    /\ attempts = 1 /\ Len(routesInfo) = 1
    /\ Wildcards(routesInfo[1].Path) # <<>>
    /\ \A k \in 1..Len(Wildcards(routesInfo[1].Path)) : Wildcards(routesInfo[1].Path)[k] = ":"

\* what url.QueryUnescape makes of a captured string when asked to and when the
\* string decodes, the string itself otherwise
Decoded(v, unescape) ==
    IF unescape /\ ~QueryUnescape(v).err THEN QueryUnescape(v).s ELSE v

DecodedParams(params, unescape) ==
    [k \in 1..Len(params) |->
        [Key |-> params[k].Key, Value |-> Decoded(params[k].Value, unescape)]]

\* C4 as stated: with a parameter pattern as the only route, looking up an instance
\* of it returns the route's chain and, per :name, the substituted string.
C4_ValueIsSubstituted ==
    (Looked /\ OnlyParamRoute /\ Matches(routesInfo[1].Path, result.path))
        => /\ result.value.handlers = routesInfo[1].Handler
           /\ result.value.params = Bind(routesInfo[1].Path, result.path).params

\* C4 amended: with a parameter pattern as the only route, looking up an instance of
\* it returns the route's chain and one parameter per :name, in pattern order, whose
\* value is the substituted string when unescape is off or the string does not decode,
\* and its query-unescaped form ('+' a space, %XX a byte) when unescape is on.
C4_ValueIsCaptured ==
    (Looked /\ OnlyParamRoute /\ Matches(routesInfo[1].Path, result.path))
        => /\ result.value.panic = ""
           /\ result.value.handlers = routesInfo[1].Handler
           /\ result.value.fullPath = routesInfo[1].Path
           /\ result.value.params =
                DecodedParams(Bind(routesInfo[1].Path, result.path).params, result.unescape)

C4_Witness ==
    /\ Looked /\ OnlyParamRoute /\ Matches(routesInfo[1].Path, result.path)
    /\ Len(result.value.params) = 2
    /\ result.unescape
    /\ result.value.params[2].Value # Bind(routesInfo[1].Path, result.path).params[2].Value

\* C5 as stated: every value bound to a :name parameter in a successful lookup is a
\* non-empty string without '/'.
C5_ParamIsOneSegment ==
    (Looked /\ ~result.unescape /\ result.value.handlers # NilHandlers)
        => \A k \in 1..Len(result.value.params) :
             (k <= Len(Wildcards(result.value.fullPath))
                /\ Wildcards(result.value.fullPath)[k] = ":")
               => LET v == result.value.params[k].Value IN
                  Len(v) > 0 /\ IndexByte(v, "/") < 0

\* the registered patterns <prefix>/*name with a literal prefix that match the path
\* looked up
CatchAllRoutes ==
    {r \in Registered : Wildcards(r) = <<"*">> /\ Matches(r, result.path)}

Before == {result.before[k].Path : k \in 1..Len(result.before)}

\* p and q agree up to a position where each has a wildcard, and the two wildcard
\* tokens (marker and name, up to the next '/') differ
WildcardClash(p, q) ==
    \E k \in 0..(Min(Len(p), Len(q)) - 1) :
        /\ Slice(p, 0, k) = Slice(q, 0, k)
        /\ At(p, k) \in {":", "*"}
        /\ At(q, k) \in {":", "*"}
        /\ Segment(From(p, k)) # Segment(From(q, k))

\* C7: a registration whose pattern has, at the position of a wildcard of a registered
\* pattern with the same text before it, a wildcard of another name or kind, fails.
C7_WildcardConflictFails ==
    (result.op = "addRoute" /\ \E r \in Before : WildcardClash(r, result.path))
        => result.err # ""

C7_Witness ==
    /\ result.op = "addRoute"
    /\ result.path \in Routes \cup ClashRoutes
    /\ \E r \in Before : WildcardClash(r, result.path) /\ Wildcards(r)[1] = "*"
    /\ result.err # ""
    /\ routesInfo = result.before

\* getValue as a caller with a Context's buffers would call it on the GET tree
lookup(h, trees, path) ==
    getValue(h, get(trees, "GET"), path, SkippedNodesCap, FALSE, 0, FALSE)

\* C8: a registration of a path that is registered fails, registers nothing, and
\* leaves every lookup with the chain it returned before; the chain it offered is
\* returned by no lookup.
C8_DuplicateFails ==
    [][(/\ attempts' = attempts + 1
        /\ result'.op = "addRoute"
        /\ result'.path \in Registered)
         => /\ result'.err # ""
            /\ routesInfo' = routesInfo
            /\ \A q \in RegRequestPaths :
                 /\ lookup(heap', methodTrees', q).handlers
                      = lookup(heap, methodTrees, q).handlers
                 /\ lookup(heap', methodTrees', q).handlers # result'.handlers]_vars

C8_Witness ==
    /\ result.op = "addRoute"
    /\ result.path \in Before
    /\ Wildcards(result.path) # <<>>
    /\ result.err # ""
    /\ \E q \in RegRequestPaths :
         lookup(heap, methodTrees, q).handlers = HandlersOf(result.path)

\* a '/' follows a catch-all marker: the catch-all token is not the end of the path
CatchAllNotLast(path) ==
    \E k \in 1..Len(path) : path[k] = "*" /\ \E j \in (k + 1)..Len(path) : path[j] = "/"

\* C9: a registration of a path in which something follows a catch-all token fails,
\* whatever earlier registrations (failed ones included) left in the tree.
C9_CatchAllNotLastFails ==
    (result.op = "addRoute" /\ CatchAllNotLast(result.path)) => result.err # ""

C9_Witness ==
    /\ result.op = "addRoute" /\ CatchAllNotLast(result.path)
    /\ result.err # ""
    /\ \E r \in Before : Wildcards(r) = <<"*">>

\* the first wildcard marker of some segment has an empty name or a name with a
\* further ':' or '*'
Malformed(path) ==
    \E k \in 0..(Len(path) - 1) :
        /\ At(path, k) \in {":", "*"}
        /\ \A j \in 0..(k - 1) :
             At(path, j) \in {":", "*"} => \E m \in (j + 1)..(k - 1) : At(path, m) = "/"
        /\ LET name == Segment(From(path, k + 1)) IN
           \/ name = <<>>
           \/ \E m \in 1..Len(name) : name[m] \in {":", "*"}

\* C10: a registration of a path with a malformed wildcard token fails, and every
\* param node of the tree is ':' followed by a non-empty name free of ':', '*', '/'.
C10_MalformedWildcardFails ==
    /\ (result.op = "addRoute" /\ Malformed(result.path)) => result.err # ""
    /\ \A n \in 1..Len(heap) :
         heap[n].nType = "param"
           => /\ Len(heap[n].path) >= 2
              /\ heap[n].path[1] = ":"
              /\ \A m \in 2..Len(heap[n].path) : heap[n].path[m] \notin {":", "*", "/"}

C10_Witness ==
    /\ result.op = "addRoute" /\ Malformed(result.path)
    /\ Len(Wildcards(result.path)) = 2
    /\ result.err # ""
    /\ \E n \in 1..Len(heap) : heap[n].nType = "param"

\* C11: a successful registration of a pattern that does not match a path leaves
\* the lookup of that path as it was: the same chain, the same parameters.
C11_LaterRouteKeepsLookup ==
    [][(/\ AllSucceeded
        /\ routesInfo # <<>>
        /\ attempts' = attempts + 1
        /\ result'.op = "addRoute"
        /\ result'.err = "")
         => \A q \in SegPaths :
              (/\ lookup(heap, methodTrees, q).handlers # NilHandlers
               /\ ~Matches(result'.path, q))
                => /\ lookup(heap', methodTrees', q).handlers
                        = lookup(heap, methodTrees, q).handlers
                   /\ lookup(heap', methodTrees', q).params
                        = lookup(heap, methodTrees, q).params]_vars

\* C12: a lookup that returns no chain and the trailing-slash hint is of a path
\* whose form with the trailing '/' toggled is served by an exact lookup.
C12_HintTargetIsServed ==
    (/\ Looked
     /\ result.value.panic = ""
     /\ result.value.handlers = NilHandlers
     /\ result.value.tsr
     /\ result.path \notin {<<>>, <<"/">>})
        => lookup(heap, methodTrees, toggleSlash(result.path)).handlers # NilHandlers

\* C13: a lookup that finds no chain for a path whose form with the trailing '/'
\* toggled matches a registered pattern reports the trailing-slash hint; and
\* with one static route registered, the dispatcher answers the request for the
\* route's path with the trailing '/' toggled by a 301 to the route's path.
C13_OffBySlashIsHinted ==
    /\ (/\ Looked
        /\ AllSucceeded
        /\ result.value.panic = ""
        /\ result.value.handlers = NilHandlers
        /\ \E r \in Registered : Matches(r, toggleSlash(result.path)))
           => result.value.tsr
    /\ (/\ result.op = "handleRequest"
        /\ AllSucceeded
        /\ Len(routesInfo) = 1
        /\ WildcardFree(routesInfo[1].Path)
        /\ routesInfo[1].Path # <<"/">>
        /\ result.path = toggleSlash(routesInfo[1].Path))
           => /\ result.outcome = "301"
              /\ result.location = routesInfo[1].Path

\* the last token of the pattern is a named parameter
EndsInParam(r) ==
    \E k \in 1..Len(r) :
        /\ r[k] = ":" /\ k > 1 /\ r[k - 1] = "/"
        /\ \A j \in (k + 1)..Len(r) : r[j] \notin {"/", ":", "*"}

\* the request path is an instance of a registered pattern that ends in a named
\* parameter, with a '/' appended, and no registered pattern matches it
ExtraSlashOnParam(path) ==
    /\ AllSucceeded
    /\ Len(path) > 1 /\ path[Len(path)] = "/"
    /\ \E r \in Registered :
         /\ EndsInParam(r)
         /\ Matches(r, Slice(path, 0, Len(path) - 1))
    /\ \A r \in Registered : ~Matches(r, path)

Fixing == result.op = "findCaseInsensitivePath"

\* C15: the search without trailing-slash fixing for a path that differs only in
\* case from a registered wildcard-free pattern finds a registered path equal to
\* the input under case folding, the pattern itself when it is the only
\* registered path that folds to the input.
C15_CaseVariantIsFound ==
    (/\ Fixing
     /\ AllSucceeded
     /\ ~result.fixTrailingSlash
     /\ \E P \in Registered : WildcardFree(P) /\ EqualFold(P, result.path))
        => /\ result.panic = ""
           /\ result.found
           /\ result.ciPath \in Registered
           /\ EqualFold(result.ciPath, result.path)
           /\ \A P \in Registered :
                ({R \in Registered : EqualFold(R, result.path)} = {P}) => result.ciPath = P

\* C16: a path the case-insensitive search returns as found is served by an exact
\* lookup and equals the input under case folding, up to one trailing '/' added
\* or removed when fixTrailingSlash is set.
C16_FoundIsServed ==
    (Fixing /\ AllSucceeded /\ result.found)
        => /\ lookup(heap, methodTrees, result.ciPath).handlers # NilHandlers
           /\ \/ EqualFold(result.ciPath, result.path)
              \/ /\ result.fixTrailingSlash
                 /\ \/ EqualFold(result.ciPath, Append(result.path, "/"))
                    \/ EqualFold(Append(result.ciPath, "/"), result.path)

\* C17: the case-insensitive search on a tree built by successful registrations
\* ends without a runtime error, for every input path.
C17_SearchNeverPanics ==
    (Fixing /\ AllSucceeded) => result.panic = ""

\* a pattern without its escaping backslashes: the text it stands for
RECURSIVE Literal(_)
Literal(pattern) ==
    IF pattern = <<>> THEN <<>>
    ELSE IF Len(pattern) >= 2 /\ pattern[1] = "\\" /\ pattern[2] = ":"
    THEN <<":">> \o Literal(From(pattern, 2))
    ELSE <<pattern[1]>> \o Literal(Tail(pattern))

\* the pattern has an escaped colon and no wildcard token
EscapedLiteral(pattern) ==
    /\ Literal(pattern) # pattern
    /\ findWildcard(pattern).i < 0
    /\ ~findWildcard(pattern).panic

\* C18: the lookup of the text a registered pattern with escaped colons and no
\* wildcard stands for (the pattern without the backslashes) returns that
\* route's chain and no parameters.
C18_EscapedColonIsLiteral ==
    \A r \in Registered :
        (Looked /\ AllSucceeded /\ EscapedLiteral(r) /\ result.path = Literal(r))
            => /\ result.value.handlers = HandlersOf(r)
               /\ result.value.params = <<>>

\* C19: a lookup that returns a chain returns the fullPath of a registered
\* pattern that matches the request path, the chain registered for that pattern,
\* and one parameter per wildcard of the pattern, in the pattern's order, keyed
\* by the wildcard names, with the matched text (decoded when unescape is on) as
\* values.
C19_ResultIsOneRoute ==
    (/\ Looked
     /\ AllSucceeded
     /\ result.value.panic = ""
     /\ result.value.handlers # NilHandlers)
        => /\ result.value.fullPath \in Registered
           /\ Matches(result.value.fullPath, result.path)
           /\ result.value.handlers = HandlersOf(result.value.fullPath)
           /\ result.value.params
                = DecodedParams(Bind(result.value.fullPath, result.path).params,
                                result.unescape)

\* C20: after registrations that all succeeded, no lookup returns two parameters
\* with the same key.
C20_KeysAreDistinct ==
    (Looked /\ AllSucceeded /\ result.value.panic = "")
        => \A i, j \in 1..Len(result.value.params) :
             result.value.params[i].Key = result.value.params[j].Key => i = j

\* the trees methodTrees holds for a method
TreesOf(trees, method) == {k \in 1..Len(trees) : trees[k].method = method}

\* the patterns registered under a method
RegisteredUnder(method) ==
    {routesInfo[k].Path : k \in {j \in 1..Len(routesInfo) : routesInfo[j].Method = method}}

\* C21: a registration attempt under a method leaves at most one tree per method
\* and, for every other method, the root of its tree and the result of every
\* lookup and case-insensitive search on it as they were; a lookup under a method
\* that has no route registered returns no chain.
C21_MethodTreesAreDisjoint ==
    [][/\ (result'.op = "addRoute" /\ attempts' = attempts + 1)
            => /\ \A m \in TwoMethods : Cardinality(TreesOf(methodTrees', m)) <= 1
               /\ \A m \in TwoMethods \ {result'.method} :
                    /\ get(methodTrees', m) = get(methodTrees, m)
                    /\ get(methodTrees, m) # 0
                         => \A q \in MethPaths :
                              /\ getValue(heap', get(methodTrees', m), q,
                                          SkippedNodesCap, FALSE, 0, FALSE)
                                   = getValue(heap, get(methodTrees, m), q,
                                              SkippedNodesCap, FALSE, 0, FALSE)
                              /\ \A fix \in BOOLEAN :
                                   findCaseInsensitivePath(heap', get(methodTrees', m), q, fix)
                                     = findCaseInsensitivePath(heap, get(methodTrees, m), q, fix)
       /\ (result'.op = "getValue" /\ RegisteredUnder(result'.method) = {})
            => result'.value.handlers = NilHandlers
       /\ (result'.op = "handleRequest" /\ RegisteredUnder(result'.method) = {})
            => result'.outcome # "handlers"]_vars

C21_Witness ==
    /\ result.op = "addRoute" /\ result.method = "POST"
    /\ result.path = <<"/", "a">>
    /\ result.err = ""
    /\ Len(methodTrees) = 2
    /\ RegisteredUnder("GET") = {<<"/", ":", "x">>}
    /\ getValue(heap, get(methodTrees, "GET"), <<"/", "a">>,
                SkippedNodesCap, FALSE, 0, FALSE).fullPath = <<"/", ":", "x">>

\* the result of an ended lookup is the result of the same call on the tree as it is
Alone(c) ==
    IF c.op = "getValue"
    THEN c.value = getValue(heap, get(methodTrees, c.method), c.path0,
                            SkippedNodesCap, FALSE, 0, FALSE)
    ELSE LET r == findCaseInsensitivePath(heap, get(methodTrees, c.method), c.path0,
                                          c.fixTrailingSlash)
         IN  c.ciPath = r.path /\ c.found = r.found /\ c.panic = r.panic

IsWild(h, c) == h[c].nType \in {"param", "catchAll"}

RECURSIVE StartsWith(_, _, _)
StartsWith(h, c, b) ==
    IF h[c].path # <<>> THEN h[c].path[1] = b
    ELSE \E j \in 1..Len(h[c].children) : StartsWith(h, h[c].children[j], b)

\* the k-th byte of the node's index string designates its k-th child
Designates(h, n, k) == StartsWith(h, h[n].children[k], h[n].indices[k])

\* C24: after every registration attempt, failed ones included, the children of a
\* node that are not wildcard nodes are in order of non-increasing priority, and
\* every byte of the node's index string designates the child at its position.
C24_ChildrenByPriority ==
    \A n \in 1..Len(heap) :
        LET cs == heap[n].children IN
        /\ \A i, j \in 1..Len(cs) :
             (i < j /\ ~IsWild(heap, cs[i]) /\ ~IsWild(heap, cs[j]))
                => heap[cs[i]].priority >= heap[cs[j]].priority
        /\ Len(heap[n].indices) <= Len(cs)
        /\ \A k \in 1..Len(heap[n].indices) : Designates(heap, n, k)

\* the outcome of a later registration of path on the router (h, trees, maxP) and
\* of the lookups after it
Later(h, trees, maxP, path, q) ==
    LET r == engineAddRoute(h, trees, maxP, "GET", path, <<MaxAttempts + 1>>) IN
    [err |-> r.err # "",
     value |-> getValue(r.heap, get(r.trees, "GET"), q, SkippedNodesCap, FALSE, 0, FALSE)]

\* C28: a registration that fails leaves every lookup (chain, parameters,
\* trailing-slash hint) and every later registration attempt, with the lookups
\* after it, as they are without the failed call.
C28_FailedCallLeavesNoTrace ==
    [][(/\ result'.op = "addRoute"
        /\ attempts' = attempts + 1
        /\ result'.err # ""
        /\ get(methodTrees, "GET") # 0)
          => /\ \A q \in RegRequestPaths :
                  lookup(heap', methodTrees', q) = lookup(heap, methodTrees, q)
             /\ \A path \in Routes, q \in RegRequestPaths :
                  Later(heap', methodTrees', maxParams', path, q)
                    = Later(heap, methodTrees, maxParams, path, q)]_vars

\* the nodes of the tree below node n, each with the concatenation of the path
\* fragments from the root down to it, prefix being the concatenation above n
RECURSIVE Below(_, _, _)
Below(h, n, prefix) ==
    {<<n, prefix \o h[n].path>>}
        \cup UNION {Below(h, h[n].children[k], prefix \o h[n].path) :
                        k \in 1..Len(h[n].children)}

\* the nodes of the GET tree that carry a handler chain, with their concatenations
Carrying ==
    IF get(methodTrees, "GET") = 0 THEN {}
    ELSE {e \in Below(heap, get(methodTrees, "GET"), <<>>) : heap[e[1]].handlers # NilHandlers}

\* C25: after successful registrations, the concatenation of the fragments from the
\* root down to a node that carries a handler chain is the node's fullPath and a
\* registered path, the chain is the one registered for it, and every registered
\* path has exactly one such node.
C25_HandlersMatchRoutes ==
    AllSucceeded
        => /\ \A e \in Carrying :
                /\ e[2] = heap[e[1]].fullPath
                /\ e[2] \in Registered
                /\ heap[e[1]].handlers = HandlersOf(e[2])
           /\ \A r \in Registered : Cardinality({e \in Carrying : e[2] = r}) = 1

C25_Witness ==
    /\ AllSucceeded
    /\ Len(routesInfo) = 3
    /\ Cardinality(Carrying) = 3
    /\ \E e \in Carrying :
         /\ heap[e[1]].nType = "static"
         /\ heap[e[1]].children # <<>>
         /\ heap[e[1]].handlers = <<1>>
         /\ e[1] # get(methodTrees, "GET")
         /\ heap[e[1]].path # e[2]

\* the catch-all nodes of the heap
CatchAlls == {c \in 1..Len(heap) : heap[c].nType = "catchAll"}

\* c is the node that holds the fragment "/*name" of a catch-all: it ends a
\* registered path, carries its handlers and has no child
CatchAllLeaf(c) ==
    LET p == heap[c].path
        f == heap[c].fullPath
    IN  /\ Len(p) >= 2
        /\ At(p, 0) = "/"
        /\ At(p, 1) = "*"
        /\ \A k \in 2..(Len(p) - 1) : At(p, k) # "/"
        /\ heap[c].children = <<>>
        /\ ~heap[c].wildChild
        /\ heap[c].handlers # NilHandlers
        /\ Len(f) >= Len(p)
        /\ Slice(f, Len(f) - Len(p), Len(f)) = p
        /\ \E k \in 1..Len(routesInfo) : routesInfo[k].Path = f

\* c is the empty node in front of the fragment of a catch-all: its only child
\* is the node that holds the fragment
CatchAllFront(c) ==
    /\ heap[c].path = <<>>
    /\ heap[c].wildChild
    /\ heap[c].handlers = NilHandlers
    /\ Len(heap[c].children) = 1
    /\ heap[heap[c].children[1]].nType = "catchAll"
    /\ heap[heap[c].children[1]].path # <<>>
    /\ heap[heap[c].children[1]].fullPath = heap[c].fullPath

\* C26 as stated: every node of kind CatchAll has no children.
C26_CatchAllHasNoChildren ==
    \A c \in CatchAlls : heap[c].children = <<>>

\* C26: a catch-all is two nodes of kind CatchAll, an empty one whose only child
\* holds the fragment "/*name"; the node that holds the fragment has no children
\* and its fragment is the final segment of a registered path.
C26_CatchAllEndsRoute ==
    \A c \in CatchAlls : CatchAllLeaf(c) \/ CatchAllFront(c)

C26_Witness ==
    /\ \E c \in CatchAlls : CatchAllFront(c) /\ heap[c].fullPath = <<"/", "a", "/", "*", "x">>
    /\ \E c \in CatchAlls : CatchAllLeaf(c) /\ heap[c].fullPath = <<"/", "a", "/", "*", "x">>
    /\ ~AllSucceeded
    /\ attempts = 3

----------------------------------------------------------------------------
(* resolveRoutePath *)

\* the "case out.w > dotdot" of path.Clean: out without its last element
RECURSIVE backtrack(_, _, _)
backtrack(out, w, dotdot) ==
    IF w > dotdot /\ At(out, w) # "/" THEN backtrack(out, w - 1, dotdot)
    ELSE Slice(out, 0, w)

\* the default case of path.Clean: the element of path that starts at r
RECURSIVE elementEnd(_, _)
elementEnd(path, r) ==
    IF r < Len(path) /\ At(path, r) # "/" THEN elementEnd(path, r + 1) ELSE r

\* the loop of path.Clean, r the read position and out the bytes written
RECURSIVE cleanLoop(_, _, _, _, _)
cleanLoop(path, rooted, r, out, dotdot) ==
    LET n == Len(path) IN
    IF r >= n THEN out
    ELSE IF At(path, r) = "/" THEN cleanLoop(path, rooted, r + 1, out, dotdot)
    ELSE IF At(path, r) = "." /\ (r + 1 = n \/ At(path, r + 1) = "/")
    THEN cleanLoop(path, rooted, r + 1, out, dotdot)
    ELSE IF /\ At(path, r) = "."
            /\ At(path, r + 1) = "."
            /\ (r + 2 = n \/ At(path, r + 2) = "/")
    THEN IF Len(out) > dotdot
         THEN cleanLoop(path, rooted, r + 2, backtrack(out, Len(out) - 1, dotdot), dotdot)
         ELSE IF ~rooted
         THEN LET out1 == (IF Len(out) > 0 THEN Append(out, "/") ELSE out) \o <<".", ".">>
              IN  cleanLoop(path, rooted, r + 2, out1, Len(out1))
         ELSE cleanLoop(path, rooted, r + 2, out, dotdot)
    ELSE LET out1 == IF (rooted /\ Len(out) # 1) \/ (~rooted /\ Len(out) # 0)
                     THEN Append(out, "/") ELSE out
             e == elementEnd(path, r)
         IN  cleanLoop(path, rooted, e, out1 \o Slice(path, r, e), dotdot)

\* path.Clean
Clean(path) ==
    IF path = <<>> THEN <<".">>
    ELSE LET rooted == At(path, 0) = "/"
             out == IF rooted THEN cleanLoop(path, TRUE, 1, <<"/">>, 1)
                    ELSE cleanLoop(path, FALSE, 0, <<>>, 0)
         IN  IF out = <<>> THEN <<".">> ELSE out

\* what resolveRoutePath hands to path.Clean
joined(basePath, relativePath) ==
    (IF At(basePath, Len(basePath) - 1) # "/" THEN Append(basePath, "/") ELSE basePath)
        \o (IF At(relativePath, 0) = "/" THEN From(relativePath, 1) ELSE relativePath)

\* a join that leaves the path as path.Clean returns it, like path.Join
resolveRoutePathJoin(basePath, relativePath) ==
    IF relativePath = <<>> THEN basePath
    ELSE IF basePath = <<>> THEN relativePath
    ELSE Clean(joined(basePath, relativePath))

\* resolveRoutePath(basePath, relativePath)
resolveRoutePath(basePath, relativePath) ==
    IF relativePath = <<>> THEN basePath
    ELSE IF basePath = <<>> THEN relativePath
    ELSE LET finalPath == Clean(joined(basePath, relativePath)) IN
         IF HasSuffix(relativePath, <<"/">>) /\ finalPath # <<"/">>
         THEN Append(finalPath, "/")
         ELSE finalPath

\* the longest relative path handed to resolveRoutePath
MaxRelLen == 4

\* the longest base path a group is made with
MaxBaseLen == 5

PathBytes == {"/", ".", "a"}

\* the relative paths handed to Handle and Group
RelPaths == UNION {[1..k -> PathBytes] : k \in 0..MaxRelLen}

\* the base paths of the engine and of TestResolveRoutePath
BasePaths ==
    { <<>>,
      <<"/">>,
      <<"/", "a">>,
      <<"/", "a", "/">>,
      <<"/", "a", "/", "/", "b">>,
      <<"/", "a", "/", ".", "/", "b">> }

\* a call of resolveRoutePath about to be made
InitPath ==
    /\ heap = <<>>
    /\ methodTrees = <<>>
    /\ maxParams = 0
    /\ routesInfo = <<>>
    /\ attempts = 0
    /\ goroutines = [g \in 1..MaxGoroutines |-> [pc |-> "idle"]]
    /\ \E basePath \in BasePaths, relativePath \in RelPaths :
         result = [op |-> "call", basePath |-> basePath, relativePath |-> relativePath]

\* the call returns
ResolveRoutePath ==
    /\ result.op = "call"
    /\ result' = [op |-> "resolveRoutePath", basePath |-> result.basePath,
                  relativePath |-> result.relativePath,
                  path |-> resolveRoutePath(result.basePath, result.relativePath)]
    /\ UNCHANGED <<heap, methodTrees, maxParams, routesInfo, attempts, goroutines>>

\* RouterGroup.Group: the path returned is the base path of a group, and a route
\* or a group is added to that group with relativePath; the base path of a group
\* descends from the "/" of the engine, the empty one is handed over by the test
Group(relativePath) ==
    /\ result.op = "resolveRoutePath"
    /\ result.basePath # <<>>
    /\ Len(result.path) <= MaxBaseLen
    /\ result' = [op |-> "call", basePath |-> result.path, relativePath |-> relativePath]
    /\ UNCHANGED <<heap, methodTrees, maxParams, routesInfo, attempts, goroutines>>

NextPath ==
    \/ ResolveRoutePath
    \/ \E relativePath \in RelPaths : Group(relativePath)

SpecPath == InitPath /\ [][NextPath]_vars

\* the segments of p between its slashes, cur being the segment read so far
RECURSIVE SegmentsFrom(_, _)
SegmentsFrom(p, cur) ==
    IF p = <<>> THEN <<cur>>
    ELSE IF Head(p) = "/" THEN <<cur>> \o SegmentsFrom(Tail(p), <<>>)
    ELSE SegmentsFrom(Tail(p), Append(cur, Head(p)))

Segments(p) == SegmentsFrom(p, <<>>)

\* where the names lead from the directory at: "." stays, ".." goes up but not
\* above the root, an empty name stays, any other name goes down
RECURSIVE FollowNames(_, _)
FollowNames(names, at) ==
    IF names = <<>> THEN at
    ELSE IF Head(names) \in {<<>>, <<".">>} THEN FollowNames(Tail(names), at)
    ELSE IF Head(names) = <<".", ".">>
    THEN FollowNames(Tail(names), IF at = <<>> THEN at ELSE SubSeq(at, 1, Len(at) - 1))
    ELSE FollowNames(Tail(names), Append(at, Head(names)))

\* the rooted path of a directory
RECURSIVE Rooted(_)
Rooted(at) ==
    IF at = <<>> THEN <<>> ELSE <<"/">> \o Head(at) \o Rooted(Tail(at))

\* p without the slash it ends with, the root excepted
Unslashed(p) ==
    IF Len(p) > 1 /\ HasSuffix(p, <<"/">>) THEN SubSeq(p, 1, Len(p) - 1) ELSE p

\* C27: resolveRoutePath returns basePath for an empty relativePath; for a
\* non-empty basePath and relativePath it returns the cleaned join of the two
\* (no empty, "." or ".." segment), which ends with "/" exactly when
\* relativePath does or the result is the root "/".
C27_TrailingSlashIsPreserved ==
    result.op = "resolveRoutePath"
        => /\ result.relativePath = <<>> => result.path = result.basePath
           /\ result.relativePath # <<>> /\ result.basePath # <<>>
                => LET at == FollowNames(Segments(result.basePath) \o Segments(result.relativePath),
                                    <<>>)
                       body == Unslashed(result.path)
                   IN  /\ body = (IF at = <<>> THEN <<"/">> ELSE Rooted(at))
                       /\ body # <<"/">>
                            => \A k \in 2..Len(Segments(body)) :
                                 Segments(body)[k] \notin {<<>>, <<".">>, <<".", ".">>}
                       /\ HasSuffix(result.path, <<"/">>)
                            <=> (HasSuffix(result.relativePath, <<"/">>)
                                    \/ result.path = <<"/">>)

C27_Witness ==
    /\ result.op = "resolveRoutePath"
    /\ result.basePath = <<"/", "a">>
    /\ result.relativePath = <<".", "/", "a", "/">>
    /\ result.path = <<"/", "a", "/", "a", "/">>

\* the router after Engine.addRoute registered the routes of rs, in the order
\* order[1], order[2], ..., from the k-th on, on the router r
RECURSIVE InOrder(_, _, _, _)
InOrder(rs, order, k, r) ==
    IF k > Len(rs) \/ r.err # "" THEN r
    ELSE InOrder(rs, order, k + 1,
                 engineAddRoute(r.heap, r.trees, r.maxParams, "GET",
                                rs[order[k]].Path, rs[order[k]].Handler))

\* the routers the registered routes make in the orders in which they all register
Reordered ==
    LET empty == [heap |-> <<>>, trees |-> <<>>, maxParams |-> 0, err |-> ""] IN
    {r \in {InOrder(routesInfo, order, 1, empty) : order \in Permutations(1..Len(routesInfo))} :
        r.err = ""}

\* C29: the routes registered, registered in any other order in which they all
\* register, give the same lookup result (chain, parameters, trailing-slash hint)
\* for every request path.
C29_OrderIsImmaterial ==
    (result.op = "addRoute" /\ AllSucceeded /\ routesInfo # <<>>)
        => \A r \in Reordered, q \in RegRequestPaths :
             lookup(r.heap, r.trees, q) = lookup(heap, methodTrees, q)

----------------------------------------------------------------------------
(* A client that follows redirects *)

\* route patterns with and without a trailing slash, in both cases of a letter,
\* with wildcards beside them
RedirectRoutes ==
    { <<"/">>, <<"/", "a">>, <<"/", "A">>, <<"/", "a", "/">>, <<"/", "a", "b">>,
      <<"/", ":", "x">>, <<"/", ":", "x", "/">>, <<"/", ":", "x", "/", "a">>,
      <<"/", "a", "/", "*", "x">> }

\* the paths of the first request of a client
RedirectPaths ==
    { <<"/">>, <<"/", "/">>, <<"/", "a">>, <<"/", "A">>, <<"/", "a", "/">>,
      <<"/", "A", "/">>, <<"/", "b">>, <<"/", "b", "/">>, <<"/", "a", "b">>,
      <<"/", "A", "B">>, <<"/", "a", "b", "/">>, <<"/", "b", "/", "a">>,
      <<"/", "b", "/", "a", "/">>, <<"/", "a", "/", "/">> }

\* the client sends the request the Location of a redirect names, same method
Follow ==
    /\ result.op = "handleRequest"
    /\ result.outcome = "301"
    /\ HandleRequest(result.method, result.location)

NextRedirect ==
    \/ \E method \in Methods, path \in RedirectRoutes : Settled /\ AddRoute(method, path)
    \/ \E method \in Methods, path \in RedirectPaths : Settled /\ HandleRequest(method, path)
    \/ Follow

SpecRedirect == Init /\ [][NextRedirect]_vars /\ WF_vars(Follow)

\* the request is answered for good, or the client is sent on
Answered == result.outcome \in {"handlers", "404", "405", "301"}

\* C30: a request for the Location of a redirect is not redirected back to the
\* path that was redirected, and it is answered: served by a handler chain,
\* answered as not found, or redirected further, so that a client that follows
\* the redirects is served or answered as not found after finitely many of them.
C30_RedirectsEnd ==
    [][(/\ result.op = "handleRequest"
        /\ result.outcome = "301"
        /\ result'.op = "handleRequest")
         => /\ result'.path = result.location
            /\ ~(result'.outcome = "301" /\ result'.location = result.path)
            /\ Answered']_vars

====
